---- MODULE Spec2Model ----
(***************************************************************************)
(* Model of src/dashboard.py: one run of the dashboard script over a       *)
(* cached dataset, from load_data through column detection, the sidebar    *)
(* filters, the derived views (projection, group means, bucketing, annual  *)
(* trend) to the exported table, and the rerun a widget change triggers.   *)
(*                                                                         *)
(* Python compiles the file before it runs its first line.  The file as    *)
(* committed does not compile: the footer's string literal on line 428 is  *)
(* followed by an unterminated triple-quoted string, a SyntaxError.  The   *)
(* variable script says which text is run: the committed one, which stops  *)
(* at Compile, or the one whose line 428 is a single terminated literal,   *)
(* the only text under which lines 95-423 execute at all.                  *)
(*                                                                         *)
(* Representation.  A column name is a sequence of one-character strings,  *)
(* so that lower() and the substring test are computed.  A cell is <<v>>   *)
(* for a present value and << >> for a missing one (NaN / NaT / None).     *)
(* A frame is [cols, rows]; a row is [idx, cells] where idx is the pandas  *)
(* index label read_csv gave it.  A timestamp is a number of hours since   *)
(* 2020-01-01 00:00; a date is a number of days since 2020-01-01.          *)
(***************************************************************************)
EXTENDS Integers, Sequences, FiniteSets, TLC

VARIABLES
    script,         \* the text of dashboard.py that streamlit runs
    csv,            \* the CSV file kagglehub resolves to: [cols, rows]
    now_year,       \* the year the clock showed when it was last read
    cache,          \* st.cache_data's memo of load_data()
    pc,             \* the next section of the script to run
    df,             \* the working frame
    df_original,    \* df.copy() taken right after load
    roles,          \* salary_col, dept_col, ... (<< >> is None)
    date_range,     \* what st.sidebar.date_input returned
    options,        \* the values each multiselect offered
    selected,       \* the values each multiselect returned
    projection_df,  \* project_salaries(df_original, salary_col)
    charts,         \* country_salary, gender_salary, edu_salary
    trend,          \* exp_salary / age_salary
    annual_salary,  \* mean salary per Year
    export          \* df[display_cols], the table behind the download button

vars == <<script, csv, now_year, cache, pc, df, df_original, roles, date_range,
          options, selected, projection_df, charts, trend, annual_salary,
          export>>

-----------------------------------------------------------------------------
(* Bounds of the model *)

MaxRows == 3
MaxCols == 2

-----------------------------------------------------------------------------
(* Cells *)

NaN == << >>
Some(v) == <<v>>
IsNa(c) == c = NaN
Val(c) == c[1]

Max2(a, b) == IF a >= b THEN a ELSE b
Min2(a, b) == IF a <= b THEN a ELSE b

-----------------------------------------------------------------------------
(* str.lower() and the `in` substring test on column names *)

UpperCase == <<"A","B","C","D","E","F","G","H","I","J","K","L","M",
               "N","O","P","Q","R","S","T","U","V","W","X","Y","Z">>
LowerCase == <<"a","b","c","d","e","f","g","h","i","j","k","l","m",
               "n","o","p","q","r","s","t","u","v","w","x","y","z">>

LowerChar(ch) ==
    IF \E i \in 1..26 : UpperCase[i] = ch
    THEN LowerCase[CHOOSE i \in 1..26 : UpperCase[i] = ch]
    ELSE ch

Lower(s) == [i \in 1..Len(s) |-> LowerChar(s[i])]

Contains(s, kw) ==
    \E i \in 0..(Len(s) - Len(kw)) : SubSeq(s, i + 1, i + Len(kw)) = kw

-----------------------------------------------------------------------------
(* Frames *)

NoFrame == [cols |-> << >>, rows |-> << >>]

HasCol(t, name) == \E i \in 1..Len(t.cols) : t.cols[i] = name

ColIndex(t, name) == CHOOSE i \in 1..Len(t.cols) : t.cols[i] = name

Cell(t, r, name) == r.cells[ColIndex(t, name)]

\* df[name] = values (one cell per row): overwrite the column where it
\* exists, else append it
SetColumn(t, name, values) ==
    IF HasCol(t, name)
    THEN [cols |-> t.cols,
          rows |-> [k \in 1..Len(t.rows) |->
                      [idx |-> t.rows[k].idx,
                       cells |-> [t.rows[k].cells EXCEPT
                                    ![ColIndex(t, name)] = values[k]]]]]
    ELSE [cols |-> Append(t.cols, name),
          rows |-> [k \in 1..Len(t.rows) |->
                      [idx |-> t.rows[k].idx,
                       cells |-> Append(t.rows[k].cells, values[k])]]]

RECURSIVE Masked(_, _)
Masked(rows, mask) ==
    IF rows = << >> THEN << >>
    ELSE (IF Head(mask) THEN <<Head(rows)>> ELSE << >>)
            \o Masked(Tail(rows), Tail(mask))

\* df[mask], mask one boolean per row: the rows kept, in order, with their
\* index labels
Where(t, mask) == [cols |-> t.cols, rows |-> Masked(t.rows, mask)]

\* the column as a sequence of cells
Column(t, name) == [k \in 1..Len(t.rows) |-> Cell(t, t.rows[k], name)]

\* df[col].dropna().unique()
Unique(t, name) ==
    {Val(Cell(t, t.rows[k], name)) :
        k \in {j \in 1..Len(t.rows) : ~IsNa(Cell(t, t.rows[j], name))}}

-----------------------------------------------------------------------------
(* Dates *)

\* Timestamp.date(), as days since 2020-01-01 (a timestamp counts hours)
DateOf(ts) == ts \div 24

\* Timestamp.year for the days the dashboard can hold (2020-01-01 onward)
YearOf(ts) ==
    LET d == DateOf(ts) IN
    IF d < 366 THEN 2020
    ELSE IF d < 731 THEN 2021
    ELSE IF d < 1096 THEN 2022
    ELSE IF d < 1461 THEN 2023
    ELSE 2024

\* The timestamp one text parses to, for the date texts of the datasets
\* ("unknown" is the text that is no date; errors='coerce' makes it NaT)
ParseDate(c) ==
    IF IsNa(c) THEN NaN
    ELSE CASE Val(c) = "2020-01-01"       -> Some(0)
           [] Val(c) = "2020-01-02 18:00" -> Some(42)
           [] Val(c) = "2021-03-05"       -> Some(10296)
           [] OTHER                       -> NaN

\* The strftime format pandas guesses from one text; "" when it guesses none
DateFormat(c) ==
    IF IsNa(c) THEN ""
    ELSE CASE Val(c) = "2020-01-01"       -> "%Y-%m-%d"
           [] Val(c) = "2020-01-02 18:00" -> "%Y-%m-%d %H:%M"
           [] Val(c) = "2021-03-05"       -> "%Y-%m-%d"
           [] OTHER                       -> ""

\* pd.to_datetime(column, errors='coerce').  The pandas release is not fixed
\* by the source and decides how a column of texts is read: with
\* infer_first (pandas 2.0 and later) the format is guessed from the first
\* non-null text and every text that does not match it becomes NaT; a
\* column whose first text yields no format, and every column of an earlier
\* release, is parsed text by text.
to_datetime(cells, infer_first) ==
    LET present == SelectSeq(cells, LAMBDA c : ~IsNa(c))
        format == IF present = << >> THEN "" ELSE DateFormat(present[1])
    IN  [k \in 1..Len(cells) |->
            IF infer_first /\ format # "" /\ DateFormat(cells[k]) # format
            THEN NaN
            ELSE ParseDate(cells[k])]

\* np.random.randint(0, 1800): the day offsets the model draws from
RandMaxDays == 1800
SampleOffsets == {d \in {0, 400} : d >= 0 /\ d < RandMaxDays}

-----------------------------------------------------------------------------
(* Column names *)

cDate       == <<"D","a","t","e">>
cYear       == <<"Y","e","a","r">>
cExpGroup   == <<"E","x","p","e","r","i","e","n","c","e","_","G","r","o","u","p">>
cAgeGroup   == <<"A","g","e","_","G","r","o","u","p">>

cDept       == <<"D","e","p","t">>
cSalary     == <<"S","a","l","a","r","y">>
cGender     == <<"G","e","n","d","e","r">>
cCountry    == <<"C","o","u","n","t","r","y">>
cEducation  == <<"E","d","u","c","a","t","i","o","n">>
cJoinDate   == <<"J","o","i","n","_","D","a","t","e">>
cYearsExp   == <<"Y","e","a","r","s","_","E","x","p","e","r","i","e","n","c","e">>
cAge        == <<"A","g","e">>
cManager    == <<"M","a","n","a","g","e","r">>
cSEX        == <<"S","E","X">>
cWage       == <<"W","a","g","e">>
cDesignation == <<"D","e","s","i","g","n","a","t","i","o","n">>
cDegree     == <<"d","e","g","r","e","e">>
cName       == <<"N","a","m","e">>
cDepartment == <<"D","E","P","A","R","T","M","E","N","T">>

(* The keywords of lines 55 and 108-114 *)
kDate       == <<"d","a","t","e">>
kSalary     == <<"s","a","l","a","r","y">>
kDepartment == <<"d","e","p","a","r","t","m","e","n","t">>
kDept       == <<"d","e","p","t">>
kGender     == <<"g","e","n","d","e","r">>
kSex        == <<"s","e","x">>
kAge        == <<"a","g","e">>
kExperience == <<"e","x","p","e","r","i","e","n","c","e">>
kYears      == <<"y","e","a","r","s">>
kEducation  == <<"e","d","u","c","a","t","i","o","n">>
kDegree     == <<"d","e","g","r","e","e">>
kCountry    == <<"c","o","u","n","t","r","y">>
kLocation   == <<"l","o","c","a","t","i","o","n">>
kNation     == <<"n","a","t","i","o","n">>

RoleNames == {"salary", "dept", "gender", "age", "experience", "education",
              "country"}

Keywords ==
    [salary     |-> {kSalary},
     dept       |-> {kDepartment, kDept},
     gender     |-> {kGender, kSex},
     age        |-> {kAge},
     experience |-> {kExperience, kYears},
     education  |-> {kEducation, kDegree},
     country    |-> {kCountry, kLocation, kNation}]

-----------------------------------------------------------------------------
(* Column detection, lines 106-114 *)

None == << >>

\* a generator condition without lower(): case-sensitive matching
MatchesCaseSensitive(col, kws) == \E kw \in kws : Contains(col, kw)

\* the condition of one generator: any keyword in col.lower()
Matches(col, kws) == \E kw \in kws : Contains(Lower(col), kw)

\* next((col for col in available_cols if ...), None)
RECURSIVE FirstMatch(_, _)
FirstMatch(cols, kws) ==
    IF cols = << >> THEN None
    ELSE IF Matches(Head(cols), kws) THEN Head(cols)
    ELSE FirstMatch(Tail(cols), kws)

DetectColumns(available_cols) ==
    [r \in RoleNames |-> FirstMatch(available_cols, Keywords[r])]

-----------------------------------------------------------------------------
(* Arithmetic: exact means, and exact decimal growth factors *)

RECURSIVE Gcd(_, _)
Gcd(a, b) == IF b = 0 THEN a ELSE Gcd(b, a % b)

\* the fraction s/n in lowest terms, as <<numerator, denominator>>
Frac(s, n) == LET g == Gcd(s, n) IN <<s \div g, n \div g>>

RECURSIVE SumCells(_)
SumCells(cells) ==
    IF cells = << >> THEN 0 ELSE Val(Head(cells)) + SumCells(Tail(cells))

\* Series.mean(): missing values are skipped; NaN when nothing is left
Mean(cells) ==
    LET present == SelectSeq(cells, LAMBDA c : ~IsNa(c)) IN
    IF present = << >> THEN NaN
    ELSE Some(Frac(SumCells(present), Len(present)))

\* Series.count()
Count(cells) == Len(SelectSeq(cells, LAMBDA c : ~IsNa(c)))

\* a < b for two means (fractions with positive denominators)
FracLess(a, b) == a[1] * b[2] < b[1] * a[2]

(* Naturals wider than 32 bits: little-endian limbs of four decimal digits *)
LimbBase == 10 ^ 4

RECURSIVE BigOf(_)
BigOf(n) ==
    IF n < LimbBase THEN <<n>>
    ELSE <<n % LimbBase>> \o BigOf(n \div LimbBase)

RECURSIVE MulCarry(_, _, _)
MulCarry(x, k, carry) ==
    IF x = << >> THEN (IF carry = 0 THEN << >> ELSE BigOf(carry))
    ELSE LET p == Head(x) * k + carry IN
         <<p % LimbBase>> \o MulCarry(Tail(x), k, p \div LimbBase)

RECURSIVE StripZeros(_)
StripZeros(x) ==
    IF Len(x) > 1 /\ x[Len(x)] = 0 THEN StripZeros(SubSeq(x, 1, Len(x) - 1))
    ELSE x

\* x * k for a limb number x and a small natural k
BigMul(x, k) == StripZeros(MulCarry(x, k, 0))

-----------------------------------------------------------------------------
(* load_data, lines 47-66 *)

\* [col for col in df.columns if 'date' in col.lower()]
date_cols(cols) == SelectSeq(cols, LAMBDA c : Contains(Lower(c), kDate))

\* pd.read_csv's default na_values (keep_default_na=True); the empty token
\* is the file's << >> cell.  "None" is among them from pandas 2.0 on.
NaValues(pandas2) ==
    {"#N/A", "#N/A N/A", "#NA", "-1.#IND", "-1.#QNAN", "-NaN", "-nan",
     "1.#IND", "1.#QNAN", "<NA>", "N/A", "NA", "NULL", "NaN", "n/a", "nan",
     "null"} \cup (IF pandas2 THEN {"None"} ELSE {})

\* a cell of the file whose token read_csv takes for a missing value
IsNaToken(c, pandas2) ==
    \/ IsNa(c)
    \/ ToString(Val(c)) \in {ToString(token) : token \in NaValues(pandas2)}

\* pd.read_csv: the rows get the index labels 0..n-1, the tokens that stand
\* for a missing value become NaN
ReadCsv(file, pandas2) ==
    [cols |-> file.cols,
     rows |-> [k \in 1..Len(file.rows) |->
                 [idx |-> k - 1,
                  cells |-> [j \in 1..Len(file.rows[k]) |->
                               IF IsNaToken(file.rows[k][j], pandas2)
                               THEN NaN
                               ELSE file.rows[k][j]]]]]

\* The download that holds no *.csv file: csv_files is empty (line 52).  A
\* download that raises (line 50) leaves the script without a frame as well.
NoCsv == [cols |-> << >>, rows |-> << >>]

\* offs[k] is what np.random.randint returned for row k; pandas2 says that
\* the installed pandas is release 2.0 or later, which the source does not
\* fix and which decides the missing-value tokens and how a date column is
\* read.  NoFrame is the None of line 66.
load_data(file, offs, pandas2) ==
    IF file = NoCsv THEN NoFrame
    ELSE
    LET raw == ReadCsv(file, pandas2)
        cols_with_date == date_cols(raw.cols)
        dated ==
            IF cols_with_date # << >>
            THEN SetColumn(raw, cDate,
                    to_datetime(Column(raw, cols_with_date[1]), pandas2))
            ELSE SetColumn(raw, cDate,
                    [k \in 1..Len(raw.rows) |-> Some(24 * offs[k])])
    IN  Where(dated, [k \in 1..Len(dated.rows) |->
                        ~IsNa(Column(dated, cDate)[k])])

-----------------------------------------------------------------------------
(* project_salaries, lines 69-83 *)

ProjectionYears == 5
GrowthPercent == 3

\* (1 + growth_rate) ** i, times 100^i
RECURSIVE GrowthPow(_)
GrowthPow(i) ==
    IF i = 0 THEN <<1>> ELSE BigMul(GrowthPow(i - 1), 100 + GrowthPercent)

\* The frame's two columns.  A projected value [num, den, scale] stands for
\* num / (den * 100^scale), the exact value the code's double approximates;
\* NaN when the mean is.  Line 77 reads the clock twice: year_start is the
\* year of the first datetime.now(), year_stop the year of the second.
project_salaries(t, salary_col, years, year_start, year_stop) ==
    IF ~HasCol(t, salary_col) THEN None
    ELSE LET current_avg == Mean(Column(t, salary_col))
             stop == year_stop + years + 1
             years_list == [i \in 1..(stop - year_start) |->
                               year_start + i - 1]
             value(i) == IF IsNa(current_avg) THEN NaN
                         ELSE Some([num |-> BigMul(GrowthPow(i),
                                                   Val(current_avg)[1]),
                                    den |-> Val(current_avg)[2],
                                    scale |-> i])
         IN  Some([Year |-> years_list,
                   Projected |-> [i \in 1..Len(years_list) |-> value(i - 1)]])

-----------------------------------------------------------------------------
(* The sidebar filters, lines 116-166 *)

RowDate(t, r) == DateOf(Val(Cell(t, r, cDate)))

FrameDates(t) == {RowDate(t, t.rows[k]) : k \in 1..Len(t.rows)}

SetMin(S) == CHOOSE x \in S : \A y \in S : x <= y
SetMax(S) == CHOOSE x \in S : \A y \in S : x >= y

\* What date_input can return: one date (a range half picked) or two, each
\* within [min_date, max_date].  The model offers the observed dates and the
\* day after the first.
DateInputs(t) ==
    LET min_date == SetMin(FrameDates(t))
        max_date == SetMax(FrameDates(t))
        days == {d \in FrameDates(t) \cup {min_date + 1} :
                    min_date <= d /\ d <= max_date}
    IN  {<<a>> : a \in days} \cup (days \X days)

\* a mask that leaves the end day out
DateMaskOpenEnd(d, range) == d >= range[1] /\ d < range[2]

\* a mask that puts the two ends in order first
DateMaskOrdered(d, range) ==
    d >= Min2(range[1], range[2]) /\ d <= Max2(range[1], range[2])

\* the mask of line 132
DateMask(d, range) == d >= range[1] /\ d <= range[2]

\* lines 131-132
DateFilter(t, range) ==
    IF Len(range) = 2
    THEN Where(t, [k \in 1..Len(t.rows) |->
                     DateMask(RowDate(t, t.rows[k]), range)])
    ELSE t

\* the isin filter without the `if chosen:` guard
IsinFilterUnguarded(t, col, chosen) ==
    Where(t, [k \in 1..Len(t.rows) |->
                /\ ~IsNa(Column(t, col)[k])
                /\ Val(Column(t, col)[k]) \in chosen])

\* a filter that first drops the chosen values the frame no longer shows
IsinFilterStale(t, col, chosen) ==
    IF chosen \cap Unique(t, col) # {}
    THEN Where(t, [k \in 1..Len(t.rows) |->
                     /\ ~IsNa(Column(t, col)[k])
                     /\ Val(Column(t, col)[k]) \in chosen])
    ELSE t

\* df[df[col].isin(chosen)] under `if chosen:`
IsinFilter(t, col, chosen) ==
    IF chosen # {}
    THEN Where(t, [k \in 1..Len(t.rows) |->
                     /\ ~IsNa(Column(t, col)[k])
                     /\ Val(Column(t, col)[k]) \in chosen])
    ELSE t

-----------------------------------------------------------------------------
(* Group means, lines 244-245, 281, 311, 329, 356, 382 *)

GroupCells(t, key, val, k) ==
    LET grp == SelectSeq(t.rows, LAMBDA r : Cell(t, r, key) = Some(k))
    IN  [i \in 1..Len(grp) |-> Cell(t, grp[i], val)]

\* df.groupby(key)[val].mean() on a column of plain values: one entry per
\* value the key column shows (rows with a missing key form no group).  The
\* result is held as a mapping from key to mean; its row order is left out.
GroupMean(t, key, val) ==
    [k \in Unique(t, key) |-> Mean(GroupCells(t, key, val, k))]

\* df.groupby(key)[val].agg(['mean', 'count'])
GroupMeanCount(t, key, val) ==
    [k \in Unique(t, key) |->
        [mean  |-> GroupMean(t, key, val)[k],
         count |-> Count(GroupCells(t, key, val, k))]]

\* groupby on a categorical column (what pd.cut returns).  With observed=False
\* every category has a row, the empty ones with a NaN mean; with
\* observed=True only the categories that occur.  The default differs between
\* pandas releases, so `observed` is an input.
GroupMeanCategorical(t, key, val, categories, observed) ==
    [k \in IF observed THEN Unique(t, key)
           ELSE {categories[i] : i \in 1..Len(categories)} |->
        Mean(GroupCells(t, key, val, k))]

\* Series.sort_values(ascending=False): the orders of the entries that put a
\* larger mean first and NaN last; equal means may come in either order.
SortedDescending(m) ==
    LET keys == DOMAIN m
        n == Cardinality(keys)
        before(a, b) == \/ IsNa(m[b])
                        \/ ~IsNa(m[a]) /\ ~FracLess(Val(m[a]), Val(m[b]))
    IN  {[i \in 1..n |-> <<order[i], m[order[i]]>>] :
            order \in {o \in [1..n -> keys] :
                         /\ \A i, j \in 1..n : i # j => o[i] # o[j]
                         /\ \A i, j \in 1..n : i < j => before(o[i], o[j])}}

-----------------------------------------------------------------------------
(* Bucketing, lines 326-327 and 353-354 *)

ExperienceBins == <<0, 2, 5, 10, 20, 100>>
ExperienceLabels ==
    <<"0-2 years", "3-5 years", "6-10 years", "11-20 years", "20+ years">>
AgeBins == <<0, 25, 35, 45, 55, 100>>
AgeLabels == <<"<25", "26-35", "36-45", "46-55", "55+">>

\* pd.cut(x, bins, labels) with its defaults right=True, include_lowest=False:
\* label i covers (bins[i], bins[i+1]]; anything else, and NaN, gets NaN
Cut(c, bins, labels) ==
    IF IsNa(c) THEN NaN
    ELSE LET hit == {i \in 1..Len(labels) :
                        bins[i] < Val(c) /\ Val(c) <= bins[i + 1]}
         IN  IF hit = {} THEN NaN ELSE Some(labels[CHOOSE i \in hit : TRUE])

-----------------------------------------------------------------------------
(* The data table and the download, lines 410-423 *)

HelperCols == {cExpGroup, cAgeGroup, cYear}

display_cols(t) == SelectSeq(t.cols, LAMBDA c : c \notin HelperCols)

\* df[display_cols].to_csv(index=False): header and rows, index left out.
\* The cells are kept as values; their text form is not modelled.
ToCsv(t) ==
    LET shown == display_cols(t) IN
    [cols |-> shown,
     rows |-> [k \in 1..Len(t.rows) |->
                 [j \in 1..Len(shown) |->
                     Cell(t, t.rows[k], shown[j])]]]

-----------------------------------------------------------------------------
(* The datasets the model loads *)

\* the files made of at most MaxRows rows of a pool, in the pool's order
Tables(cols, pool) ==
    {[cols |-> cols,
      rows |-> SelectSeq(pool, LAMBDA row :
                   \E i \in picked : pool[i] = row)] :
        picked \in {P \in SUBSET (1..Len(pool)) :
                       Cardinality(P) >= 1 /\ Cardinality(P) <= MaxRows}}

ColsA == <<cDept, cSalary, cGender>>
PoolA == << <<Some("Eng"),   Some(100), Some("F")>>,
            <<Some("Eng"),   Some(200), Some("M")>>,
            <<Some("Sales"), Some(50),  Some("F")>>,
            <<NaN,           Some(100), Some("M")>>,
            <<Some("Sales"), NaN,       Some("F")>> >>

ColsB == <<cCountry, cEducation, cJoinDate, cSalary, cYear>>
PoolB == << <<Some("Rwanda"), Some("BSc"), Some("unknown"),
              Some(50),  Some(2018)>>,
            <<Some("Kenya"),  Some("BSc"), Some("2020-01-01"),
              Some(100), Some(2019)>>,
            <<Some("Kenya"),  Some("MSc"), Some("2020-01-02 18:00"),
              Some(200), Some(2019)>>,
            <<Some("Rwanda"), Some("None"), Some("2021-03-05"),
              Some(50),  Some(2018)>>,
            <<NaN,            Some("BSc"), Some("n/a"),
              Some(100), Some(2018)>>,
            <<NaN,            Some("MSc"), Some("2020-01-01"),
              NaN,       NaN>> >>

ColsC == <<cYearsExp, cSalary>>
PoolC == << <<Some(0),   Some(100)>>,
            <<Some(2),   Some(200)>>,
            <<Some(3),   Some(50)>>,
            <<Some(21),  Some(100)>>,
            <<Some(101), Some(200)>> >>

ColsD == <<cAge, cSalary>>
PoolD == << <<Some(0),   Some(100)>>,
            <<Some(25),  Some(200)>>,
            <<Some(26),  Some(50)>>,
            <<Some(56),  Some(100)>>,
            <<Some(101), Some(200)>> >>

\* a file the dashboard can show: at least one row has a date
Usable(file) ==
    \A pandas2 \in BOOLEAN :
        load_data(file, [k \in 1..Len(file.rows) |-> 0], pandas2).rows
            # << >>

Datasets ==
    {f \in Tables(ColsA, PoolA) \cup Tables(ColsB, PoolB)
           \cup Tables(ColsC, PoolC) \cup Tables(ColsD, PoolD) : Usable(f)}

\* headers for the column detection: every sequence of at most MaxCols
\* different names of the pool, over one row of numbers
NamePool == {cSalary, cDepartment, cDept, cSEX, cAge, cManager, cWage,
             cYearsExp, cDegree, cDesignation, cName, cEducation}

RECURSIVE Headers(_)
Headers(n) ==
    IF n = 0 THEN {<< >>}
    ELSE LET shorter == Headers(n - 1) IN
         shorter \cup {Append(h, c) : h \in {g \in shorter : Len(g) = n - 1},
                                      c \in NamePool}

HeaderDatasets ==
    {[cols |-> h, rows |-> << [j \in 1..Len(h) |-> Some(1)] >>] :
        h \in {g \in Headers(MaxCols) :
                 /\ g # << >>
                 /\ \A i, j \in 1..Len(g) : i # j => g[i] # g[j]}}

\* the years the clock can show, and what a read can return once it has
\* shown year y
NowYears == {2025, 2026}
ClockReads(y) == {z \in NowYears : z >= y}

\* the two texts of dashboard.py
Scripts == {"committed", "line 428 terminated"}

\* compile(): the committed text ends inside the triple-quoted string that
\* line 428 opens after "Built by "
Compiles(text) == text # "committed"

-----------------------------------------------------------------------------
(* The script *)

FilterRoles == {"dept", "gender", "country", "education"}

NoChoice == [f \in FilterRoles |-> {}]

Fresh ==
    /\ pc = "compile"
    /\ df = NoFrame
    /\ df_original = NoFrame
    /\ roles = [r \in RoleNames |-> None]
    /\ date_range = << >>
    /\ options = NoChoice
    /\ selected = NoChoice
    /\ projection_df = None
    /\ charts = None
    /\ trend = None
    /\ annual_salary = None
    /\ export = NoFrame

Init ==
    /\ script \in Scripts
    /\ csv \in Datasets \cup {NoCsv}
    /\ now_year \in NowYears
    /\ cache = NoFrame
    /\ Fresh

InitHeaders ==
    /\ script \in Scripts
    /\ csv \in HeaderDatasets \cup {NoCsv}
    /\ now_year \in NowYears
    /\ cache = NoFrame
    /\ Fresh

\* Python compiles the whole file before line 1 runs; a SyntaxError ends the
\* run with nothing executed
Compile ==
    /\ pc = "compile"
    /\ pc' = IF Compiles(script) THEN "load" ELSE "syntax_error"
    /\ UNCHANGED <<script, csv, now_year, cache, df, df_original, roles,
                   date_range, options, selected, projection_df, charts,
                   trend, annual_salary, export>>

\* lines 95-104: load_data() behind st.cache_data; st.error and st.stop()
\* when it returned None, else df_original = df.copy()
Load ==
    /\ pc = "load"
    /\ IF cache # NoFrame
       THEN cache' = cache
       ELSE \E offs \in [1..Len(csv.rows) -> SampleOffsets],
               pandas2 \in BOOLEAN :
                cache' = load_data(csv, offs, pandas2)
    /\ IF cache' = NoFrame
       THEN /\ pc' = "stopped"
            /\ UNCHANGED <<df, df_original>>
       ELSE /\ df' = cache'
            /\ df_original' = cache'
            /\ pc' = "detect"
    /\ UNCHANGED <<script, csv, now_year, roles, date_range, options, selected,
                   projection_df, charts, trend, annual_salary, export>>

\* lines 106-114
Detect ==
    /\ pc = "detect"
    /\ roles' = DetectColumns(df.cols)
    /\ pc' = "date"
    /\ UNCHANGED <<script, csv, now_year, cache, df, df_original, date_range, options,
                   selected, projection_df, charts, trend, annual_salary,
                   export>>

\* lines 119-132
DateRange ==
    /\ pc = "date"
    /\ \E range \in DateInputs(df) :
          /\ date_range' = range
          /\ df' = DateFilter(df, range)
    /\ pc' = "dept"
    /\ UNCHANGED <<script, csv, now_year, cache, df_original, roles, options, selected,
                   projection_df, charts, trend, annual_salary, export>>

\* one multiselect and its filter: lines 137-142, 145-150, 153-158, 161-166
Multiselect(role, next) ==
    /\ pc = role
    /\ IF roles[role] # None /\ HasCol(df, roles[role])
       THEN \E chosen \in SUBSET Unique(df, roles[role]) :
               /\ options' = [options EXCEPT ![role] = Unique(df, roles[role])]
               /\ selected' = [selected EXCEPT ![role] = chosen]
               /\ df' = IsinFilter(df, roles[role], chosen)
       ELSE UNCHANGED <<options, selected, df>>
    /\ pc' = next
    /\ UNCHANGED <<script, csv, now_year, cache, df_original, roles, date_range,
                   projection_df, charts, trend, annual_salary, export>>

Department == Multiselect("dept", "gender")
Gender == Multiselect("gender", "country")
Country == Multiselect("country", "education")
Education == Multiselect("education", "projection")

\* the frame line 199 hands to project_salaries
ProjectionInput == df_original

\* lines 196-200; the two clock reads of line 77 can fall in different years
Projection ==
    /\ pc = "projection"
    /\ IF roles.salary # None
       THEN \E year_start \in ClockReads(now_year) :
            \E year_stop \in ClockReads(year_start) :
               /\ projection_df' =
                     project_salaries(ProjectionInput, roles.salary,
                                      ProjectionYears, year_start, year_stop)
               /\ now_year' = year_stop
       ELSE /\ projection_df' = None
            /\ UNCHANGED now_year
    /\ pc' = "charts"
    /\ UNCHANGED <<script, csv, cache, df, df_original, roles, date_range,
                   options, selected, charts, trend, annual_salary, export>>

\* lines 223-319: the tables behind the map and the two bar charts
Charts ==
    /\ pc = "charts"
    /\ LET with(role) == roles.salary # None /\ roles[role] # None
           edu == IF with("education")
                  THEN SortedDescending(GroupMean(df, roles.education,
                                                  roles.salary))
                  ELSE {None}
       IN  \E edu_salary \in edu :
              charts' =
                [country_salary |->
                    IF with("country")
                    THEN Some(GroupMeanCount(df, roles.country, roles.salary))
                    ELSE None,
                 gender_salary |->
                    IF with("gender")
                    THEN Some(GroupMean(df, roles.gender, roles.salary))
                    ELSE None,
                 edu_salary |->
                    IF with("education") THEN Some(edu_salary) ELSE None]
    /\ pc' = "trend"
    /\ UNCHANGED <<script, csv, now_year, cache, df, df_original, roles, date_range,
                   options, selected, projection_df, trend, annual_salary,
                   export>>

\* lines 321-376
Bucketed(t, col, name, bins, labels) ==
    SetColumn(t, name, [k \in 1..Len(t.rows) |->
                          Cut(Column(t, col)[k], bins, labels)])

Trend ==
    /\ pc = "trend"
    /\ IF roles.salary # None /\ roles.experience # None
       THEN LET cut == Bucketed(df, roles.experience, cExpGroup,
                                ExperienceBins, ExperienceLabels) IN
            /\ df' = cut
            /\ \E observed \in BOOLEAN :
                  trend' = Some(GroupMeanCategorical(cut, cExpGroup,
                                   roles.salary, ExperienceLabels, observed))
       ELSE IF roles.salary # None /\ roles.age # None
       THEN LET cut == Bucketed(df, roles.age, cAgeGroup, AgeBins, AgeLabels)
            IN
            /\ df' = cut
            /\ \E observed \in BOOLEAN :
                  trend' = Some(GroupMeanCategorical(cut, cAgeGroup,
                                   roles.salary, AgeLabels, observed))
       ELSE UNCHANGED <<df, trend>>
    /\ pc' = "annual"
    /\ UNCHANGED <<script, csv, now_year, cache, df_original, roles, date_range,
                   options, selected, projection_df, charts, annual_salary,
                   export>>

\* lines 378-383
WithYear(t) ==
    SetColumn(t, cYear, [k \in 1..Len(t.rows) |->
                           Some(YearOf(Val(Column(t, cDate)[k])))])

Annual ==
    /\ pc = "annual"
    /\ IF roles.salary # None
       THEN /\ df' = WithYear(df)
            /\ annual_salary' = Some(GroupMean(WithYear(df), cYear,
                                               roles.salary))
       ELSE UNCHANGED <<df, annual_salary>>
    /\ pc' = "table"
    /\ UNCHANGED <<script, csv, now_year, cache, df_original, roles, date_range,
                   options, selected, projection_df, charts, trend, export>>

\* lines 410-423
Table ==
    /\ pc = "table"
    /\ export' = ToCsv(df)
    /\ pc' = "done"
    /\ UNCHANGED <<script, csv, now_year, cache, df, df_original, roles, date_range,
                   options, selected, projection_df, charts, trend,
                   annual_salary>>

\* a widget change or a reload of the page runs the script again from the
\* top; only the cache stays
Rerun ==
    /\ pc \in {"done", "stopped", "syntax_error"}
    /\ pc' = "compile"
    /\ df' = NoFrame
    /\ df_original' = NoFrame
    /\ roles' = [r \in RoleNames |-> None]
    /\ date_range' = << >>
    /\ options' = NoChoice
    /\ selected' = NoChoice
    /\ projection_df' = None
    /\ charts' = None
    /\ trend' = None
    /\ annual_salary' = None
    /\ export' = NoFrame
    /\ UNCHANGED <<script, csv, now_year, cache>>

Next ==
    \/ Compile
    \/ Load
    \/ Detect
    \/ DateRange
    \/ Department
    \/ Gender
    \/ Country
    \/ Education
    \/ Projection
    \/ Charts
    \/ Trend
    \/ Annual
    \/ Table
    \/ Rerun

Spec == Init /\ [][Next]_vars

SpecHeaders == InitHeaders /\ [][Next]_vars

-----------------------------------------------------------------------------
(* Properties *)

Labels(t) == [k \in 1..Len(t.rows) |-> t.rows[k].idx]

PastFilters == pc \in {"projection", "charts", "trend", "annual", "table",
                        "done"}

PastDate == pc \in {"dept", "gender", "country", "education"} \/ PastFilters

FullRange ==
    <<SetMin(FrameDates(df_original)), SetMax(FrameDates(df_original))>>

AllSelected ==
    /\ date_range = FullRange
    /\ \A f \in FilterRoles : selected[f] = options[f]

\* C1: with the full date range and every offered value of every multiselect
\* selected, the filtered table has every row of the loaded table.
C1_AllSelectedKeepsEveryRow ==
    (PastFilters /\ AllSelected) => Labels(df) = Labels(df_original)

\* a restriction of one role: a date interval, or a set of permitted values
Restrictions(t) ==
    {[kind |-> "date", range |-> rg, chosen |-> {}] :
        rg \in {x \in DateInputs(t) : Len(x) = 2}}
    \cup
    UNION {{[kind |-> f, range |-> << >>, chosen |-> ch] :
               ch \in SUBSET Unique(t, roles[f])} :
           f \in {g \in FilterRoles : roles[g] # None}}

Restrict(t, R) ==
    IF R.kind = "date" THEN DateFilter(t, R.range)
    ELSE IsinFilter(t, roles[R.kind], R.chosen)

\* C2: for any two restrictions A and B of different roles, filtering the
\* loaded table by A then B gives the same rows as by B then A.
C2_FiltersCommute ==
    pc = "date" =>
        \A A, B \in Restrictions(df_original) :
            A.kind # B.kind =>
                Restrict(Restrict(df_original, A), B)
                    = Restrict(Restrict(df_original, B), A)

C2_Witness ==
    /\ pc = "date"
    /\ \E A, B \in Restrictions(df_original) :
          LET n == Len(df_original.rows)
              a == Len(Restrict(df_original, A).rows)
              b == Len(Restrict(df_original, B).rows)
              ab == Len(Restrict(Restrict(df_original, A), B).rows)
          IN  /\ A.kind = "gender" /\ B.kind = "dept"
              /\ a < n /\ b < n /\ ab < a /\ ab < b /\ ab > 0

\* what a row of the loaded table must satisfy under the current widgets
Permitted(r) ==
    /\ Len(date_range) = 2 =>
          /\ date_range[1] <= RowDate(df_original, r)
          /\ RowDate(df_original, r) <= date_range[2]
    /\ \A f \in FilterRoles :
          (roles[f] # None /\ selected[f] # {}) =>
              /\ Cell(df_original, r, roles[f]) # NaN
              /\ Cell(df_original, r, roles[f])[1] \in selected[f]

PermittedMask ==
    [k \in 1..Len(df_original.rows) |-> Permitted(df_original.rows[k])]

\* C3: the filtered table is exactly the rows of the loaded table that are
\* inside the date interval and, for every role with a non-empty selection,
\* hold a selected value; an empty selection restricts nothing.
C3_FilteredIsConjunction ==
    PastFilters =>
        /\ Labels(df) = Labels(Where(df_original, PermittedMask))
        /\ pc = "projection" => df = Where(df_original, PermittedMask)

C3_Witness ==
    /\ pc = "projection"
    /\ Len(date_range) = 2
    /\ \E f, g \in FilterRoles :
          /\ selected[f] # {} /\ selected[f] # options[f]
          /\ selected[g] = {} /\ options[g] # {}
    /\ df.rows # << >>
    /\ Len(DateFilter(df_original, date_range).rows) < Len(df_original.rows)
    /\ Len(df.rows) < Len(DateFilter(df_original, date_range).rows)

Inverted == Len(date_range) = 2 /\ date_range[1] > date_range[2]

\* C4: a date interval with start > end leaves no row, whatever the table
\* and the other filters, and the script runs to its end.
C4_InvertedRangeIsEmpty ==
    (PastDate /\ Inverted) =>
        /\ df.rows = << >>
        /\ pc = "done" => export.rows = << >>

C4_Witness ==
    /\ pc = "done"
    /\ Inverted
    /\ Len(df_original.rows) > 1
    /\ export.rows = << >>

\* the ranges the bucketing is documented with; the last one is open
ExperienceRanges == << <<0, 2>>, <<3, 5>>, <<6, 10>>, <<11, 20>> >>
AgeRanges == << <<0, 25>>, <<26, 35>>, <<36, 45>>, <<46, 55>> >>

InRanges(x, ranges, open_from) ==
    \/ \E i \in 1..Len(ranges) : ranges[i][1] <= x /\ x <= ranges[i][2]
    \/ x >= open_from

OneLabelEach(col, group, labels, ranges, open_from) ==
    \A k \in 1..Len(df.rows) :
        LET x == Cell(df, df.rows[k], col)
            g == Cell(df, df.rows[k], group)
        IN  IF x # NaN /\ InRanges(x[1], ranges, open_from)
            THEN g # NaN /\ \E i \in 1..Len(labels) : g[1] = labels[i]
            ELSE g = NaN

\* C5: every row whose experience (or age) lies in the declared ranges,
\* 0 and values above 100 included, has a bucket label, and every other row
\* has none.
C5_BucketsCoverTheRanges ==
    (pc \in {"annual", "table", "done"} /\ roles.salary # None) =>
        IF roles.experience # None
        THEN OneLabelEach(roles.experience, cExpGroup, ExperienceLabels,
                          ExperienceRanges, 20)
        ELSE roles.age # None =>
                OneLabelEach(roles.age, cAgeGroup, AgeLabels, AgeRanges, 56)

\* C6: the projection has the six years from the current one and the six
\* values mean * 1.03^i, i = 0..5, of the mean salary of the loaded table,
\* whatever the filters kept.
C6_ProjectionOfUnfilteredMean ==
    (pc \in {"charts", "trend", "annual", "table", "done"}
        /\ roles.salary # None) =>
        LET n == Len(cache.rows)
            sal(k) == Cell(cache, cache.rows[k], roles.salary)
            present == {k \in 1..n : sal(k) # NaN}
            total[k \in 0..n] ==
                IF k = 0 THEN 0
                ELSE total[k - 1] + (IF k \in present THEN sal(k)[1] ELSE 0)
        IN  /\ projection_df # None
            /\ projection_df[1].Year = [i \in 1..6 |-> now_year + i - 1]
            /\ Len(projection_df[1].Projected) = 6
            /\ \A i \in 1..6 :
                  LET v == projection_df[1].Projected[i] IN
                  IF present = {} THEN v = NaN
                  ELSE /\ v # NaN
                       /\ v[1].scale = i - 1
                       /\ v[1].den > 0
                       /\ i = 1 =>
                             /\ Len(v[1].num) = 1
                             /\ v[1].num[1] * Cardinality(present)
                                   = v[1].den * total[n]
                       /\ i > 1 =>
                             LET u == projection_df[1].Projected[i - 1][1]
                             IN  /\ v[1].den = u.den
                                 /\ v[1].num = BigMul(u.num, 103)

\* kw occurs in the lowercased name c
LowerHas(c, kw) ==
    \E s \in 0..(Len(c) - Len(kw)) :
        \A k \in 1..Len(kw) : LowerChar(c[s + k]) = kw[k]

\* C7: each role resolves to the first column, in column order, whose
\* lowercased name contains one of the role's keywords, and to None exactly
\* when no column name does (right after detection and at the end of every
\* run of the script).
C7_FirstMatchingColumn ==
    pc \in {"date", "done"} =>
        \A role \in RoleNames :
            LET cols == cache.cols
                hit == {i \in 1..Len(cols) :
                           \E kw \in Keywords[role] : LowerHas(cols[i], kw)}
            IN  IF hit = {} THEN roles[role] = None
                ELSE roles[role] = cols[SetMin(hit)]

C7_Witness ==
    /\ pc = "date"
    /\ csv.cols = <<cManager, cAge>>
    /\ roles.age = cManager
    /\ roles.salary = None

\* the mean the rows with value v in column col must show
MeanOfCategory(col, v, m) ==
    LET n == Len(df.rows)
        sal(k) == Cell(df, df.rows[k], roles.salary)
        idx == {k \in 1..n : /\ Cell(df, df.rows[k], col) = Some(v)
                             /\ sal(k) # NaN}
        total[k \in 0..n] ==
            IF k = 0 THEN 0
            ELSE total[k - 1] + (IF k \in idx THEN sal(k)[1] ELSE 0)
    IN  IF idx = {} THEN m = NaN
        ELSE /\ m # NaN
             /\ m[1][2] > 0
             /\ m[1][1] * Cardinality(idx) = m[1][2] * total[n]

\* the categories column col shows in the filtered table
Categories(col) ==
    {c[1] : c \in {Cell(df, df.rows[k], col) : k \in 1..Len(df.rows)}
                    \ {NaN}}

\* a group-mean table, as a mapping from category to mean, has the
\* categories of column col as its rows and their means as its values
OneRowPerCategory(table, col) ==
    /\ DOMAIN table = Categories(col)
    /\ \A v \in DOMAIN table : MeanOfCategory(col, v, table[v])

\* C8: each group-mean table the script has built (by gender, country,
\* education, and by experience or age bucket) has exactly one row per
\* category the filtered table shows, with the mean salary of that
\* category's filtered rows; a category without rows is left out.
C8_GroupMeanPerObservedCategory ==
    (pc = "annual" /\ roles.salary # None) =>
        /\ roles.gender # None =>
              OneRowPerCategory(charts.gender_salary[1], roles.gender)
        /\ roles.country # None =>
              LET c == charts.country_salary[1] IN
              OneRowPerCategory([v \in DOMAIN c |-> c[v].mean],
                                roles.country)
        /\ roles.education # None =>
              LET e == charts.edu_salary[1]
                  shown == {e[i][1] : i \in 1..Len(e)}
              IN  /\ Len(e) = Cardinality(shown)
                  /\ shown = Categories(roles.education)
                  /\ \A i \in 1..Len(e) :
                        MeanOfCategory(roles.education, e[i][1], e[i][2])
        /\ roles.experience # None =>
              OneRowPerCategory(trend[1], cExpGroup)
        /\ (roles.experience = None /\ roles.age # None) =>
              OneRowPerCategory(trend[1], cAgeGroup)

\* C9: the export has the filtered rows, and every column of the loaded
\* dataset is in it with its original values.
C9_ExportKeepsSourceColumns ==
    pc = "done" =>
        /\ Len(export.rows) = Len(df.rows)
        /\ \A i \in 1..Len(cache.cols) :
              /\ \E j \in 1..Len(export.cols) : export.cols[j] = cache.cols[i]
              /\ \A k \in 1..Len(df.rows) :
                    \A j \in 1..Len(export.cols) :
                        export.cols[j] = cache.cols[i] =>
                            \E r \in 1..Len(cache.rows) :
                                /\ cache.rows[r].idx = df.rows[k].idx
                                /\ export.rows[k][j] = cache.rows[r].cells[i]

SingleDay == Len(date_range) = 2 /\ date_range[1] = date_range[2]

OnDay(r) == RowDate(df_original, r) = date_range[1]

\* C10, as claimed: an interval of a single day leaves no row.
C10_SingleDayIsEmpty ==
    (PastDate /\ SingleDay) => df.rows = << >>

\* C10, amended: an interval of a single day keeps exactly the rows dated on
\* that day (the later filters may drop some of them).
C10_SingleDayKeepsThatDay ==
    (PastDate /\ SingleDay) =>
        /\ pc = "dept" =>
              df = Where(df_original, [k \in 1..Len(df_original.rows) |->
                                         OnDay(df_original.rows[k])])
        /\ \A k \in 1..Len(df.rows) :
              \E j \in 1..Len(df_original.rows) :
                  /\ df_original.rows[j].idx = df.rows[k].idx
                  /\ OnDay(df_original.rows[j])

C10_Witness ==
    /\ pc = "dept"
    /\ SingleDay
    /\ df.rows # << >>
    /\ Len(df.rows) < Len(df_original.rows)

====
